---- MODULE Spec2Model ----
(***************************************************************************)
(* Model of borg_ncdu_analyzer.py: the BorgAnalyzer tree builder           *)
(* (process_lines with its two directory strategies) and the ncdu          *)
(* serializer (generate_ncdu_tree), checked under Spec, and the archive     *)
(* branch of main (Popen, the try / except / finally around process_lines,  *)
(* open_ncdu_with_tree), checked under MainSpec.                            *)
(*                                                                         *)
(* Representation.                                                         *)
(*  - A Python string used as a path is the sequence of its '/'-separated  *)
(*    segments (the value of path.split('/')), so "x/y" is <<"x","y">>,    *)
(*    "." is <<".">> and the empty string "" is <<"">>.                    *)
(*  - FSEntry objects live in the heap `entries`; an object's identity is  *)
(*    its index there.  Lists of FSEntry hold indices.  The field `path`   *)
(*    of a heap cell is a history field: the argument from_filename was    *)
(*    called with.  The program never reads it.                            *)
(*  - A JSON object is a record; a JSON array that is an element of        *)
(*    another array is the record [array |-> <<...>>], so that all the     *)
(*    elements of one sequence are records.                                *)
(***************************************************************************)
EXTENDS Integers, Sequences, FiniteSets, TLC

\* ---------------------------------------------------------------- bounds
MaxLines == 3
MaxDepth == 3
\* lines the listing process writes before its output ends (MainSpec)
MaxProcLines == 2
Segs == {"x", "y"}
Sizes == {0, 42}
Types == {"d", "f"}

\* full_path     the flag BorgAnalyzer was constructed with
\* entries       the heap of FSEntry objects: [path, name, size, sub]
\* root_objects  BorgAnalyzer._root_objects, a list of identities
\* fs_cache      BorgAnalyzer._fs_cache, path -> identity
\* consumed      the lines process_lines has taken from its input, in order
\* status        "running", "returned", or the exception that ended analyze
\* tree          what analyze returned (NoTree before it returns); in main,
\*               the variable ncdu_tree
\* main          where main is and what it did: see MainState
VARIABLES full_path, entries, root_objects, fs_cache, consumed, status, tree,
          main

vars == <<full_path, entries, root_objects, fs_cache, consumed, status, tree,
          main>>

\* ------------------------------------------------------- strings as paths
EmptyStr == <<"">>
Dot == <<".">>

\* '/'.join(parts)
Join(parts) == IF parts = <<>> THEN EmptyStr ELSE parts

\* s.rstrip('/') on a head that is not made of slashes only
RECURSIVE RStripSlash(_)
RStripSlash(s) ==
    IF Len(s) > 1 /\ s[Len(s)] = ""
    THEN RStripSlash(SubSeq(s, 1, Len(s) - 1))
    ELSE s

\* os.path.dirname(path)
dirname(path) ==
    IF Len(path) = 1
    THEN EmptyStr
    ELSE LET head == SubSeq(path, 1, Len(path) - 1) \o <<"">>
         IN  IF \A i \in 1..Len(head) : head[i] = ""
             THEN head
             ELSE RStripSlash(head)

\* os.path.basename(path)
basename(path) == path[Len(path)]

\* --------------------------------------------------------------- FSEntry
from_filename(path, size) ==
    [path |-> path, name |-> basename(path), size |-> size, sub |-> <<>>]

\* add_entry inserting at the front of the list instead of appending
add_entry_front(heap, parent, child) ==
    [heap EXCEPT ![parent].sub = <<child>> \o @]

\* parent.add_entry(child) on the heap
add_entry(heap, parent, child) ==
    [heap EXCEPT ![parent].sub = Append(@, child)]

\* iterate_path_parts yielding the parent one segment too short
iterate_path_parts_short_parent(path, i) ==
    <<Join(IF i = 0 THEN <<>> ELSE SubSeq(path, 1, i - 1)),
      Join(SubSeq(path, 1, i + 1))>>

\* iterate_path_parts(path), the i-th pair yielded (i = 0 .. len(p) - 1)
iterate_path_parts(path, i) ==
    <<Join(SubSeq(path, 1, i)), Join(SubSeq(path, 1, i + 1))>>

\* ----------------------------------------------------------- input lines
\* The paths of the input: ".", and every path of at most MaxDepth segments
\* whose directories are all named "x" and whose last segment is any of Segs
\* ("x", "y", "x/x", "x/y", "x/x/x", "x/x/y", ...).
Spine(n) == [i \in 1..n |-> "x"]

Paths == {Dot} \cup {Spine(n) \o <<s>> : n \in 0..(MaxDepth - 1), s \in Segs}

BadLine ==
    [valid |-> FALSE, path |-> Dot, type |-> "f", has_size |-> FALSE, size |-> 0]

Records ==
    [valid : {TRUE}, path : Paths, type : Types, has_size : {TRUE}, size : Sizes]
    \cup
    [valid : {TRUE}, path : Paths, type : Types, has_size : {FALSE}, size : {0}]

Lines == Records \cup {BadLine}

\* ------------------------------------------------------ builder state
\* The mutable part of a BorgAnalyzer as one value: heap, root list, index,
\* and the exception raised so far ("" when none).
Builder(heap, roots, cache, raised) ==
    [entries |-> heap, root_objects |-> roots, fs_cache |-> cache, raised |-> raised]

\* _process_new_dir_full_path: the loop from its i-th iteration on
RECURSIVE FullPathLoop(_, _, _)
FullPathLoop(b, path, i) ==
    IF i >= Len(path) \/ b.raised # ""
    THEN b
    ELSE LET parent_path == iterate_path_parts(path, i)[1]
             part_path == iterate_path_parts(path, i)[2]
             id == Len(b.entries) + 1
             heap == Append(b.entries, from_filename(part_path, 0))
             cache == (part_path :> id) @@ b.fs_cache
         IN  IF part_path \in DOMAIN b.fs_cache
             THEN FullPathLoop(b, path, i + 1)
             ELSE IF parent_path = EmptyStr
             THEN FullPathLoop(
                      Builder(heap, Append(b.root_objects, id), cache, ""),
                      path, i + 1)
             ELSE IF parent_path \in DOMAIN cache
             THEN FullPathLoop(
                      Builder(add_entry(heap, cache[parent_path], id),
                              b.root_objects, cache, ""),
                      path, i + 1)
             ELSE Builder(heap, b.root_objects, cache, "KeyError")

process_new_dir_full_path(b, path) == FullPathLoop(b, path, 0)

\* _process_new_dir_dataset looking the path up first and putting the Entry it
\* finds into the Root List again
process_new_dir_dataset_reuse(b, path) ==
    LET id == Len(b.entries) + 1
    IN  IF path \in DOMAIN b.fs_cache
        THEN Builder(b.entries, Append(b.root_objects, b.fs_cache[path]),
                     b.fs_cache, "")
        ELSE Builder(Append(b.entries, from_filename(path, 0)),
                     Append(b.root_objects, id),
                     (path :> id) @@ b.fs_cache,
                     "")

\* _process_new_dir_dataset leaving the new Entry out of the index
process_new_dir_dataset_unindexed(b, path) ==
    LET id == Len(b.entries) + 1
    IN  Builder(Append(b.entries, from_filename(path, 0)),
                Append(b.root_objects, id),
                b.fs_cache,
                "")

\* _process_new_dir_dataset
process_new_dir_dataset(b, path) ==
    LET id == Len(b.entries) + 1
    IN  Builder(Append(b.entries, from_filename(path, 0)),
                Append(b.root_objects, id),
                (path :> id) @@ b.fs_cache,
                "")

\* __init__ choosing the strategy with the condition inverted
process_new_dir_inverted(fp, b, path) ==
    IF fp THEN process_new_dir_dataset(b, path)
          ELSE process_new_dir_full_path(b, path)

\* self._process_new_dir, bound in __init__
process_new_dir(fp, b, path) ==
    IF fp THEN process_new_dir_full_path(b, path)
          ELSE process_new_dir_dataset(b, path)

\* process_lines, lines 82-90: the record is a directory.  The FSEntry built
\* at line 82 carries the record's size; it is used only when the parent is
\* indexed, and dropped when _process_new_dir builds its own.
process_dir_record(fp, b, path, size) ==
    LET id == Len(b.entries) + 1
        heap == Append(b.entries, from_filename(path, size))
        parent_dir == dirname(path)
    IN  IF parent_dir \in DOMAIN b.fs_cache
        THEN Builder(add_entry(heap, b.fs_cache[parent_dir], id),
                     b.root_objects,
                     (path :> id) @@ b.fs_cache,
                     "")
        ELSE process_new_dir(fp, b, path)

\* the file branch falling back to a root entry when the parent is unknown
process_file_record_lenient(b, path, size) ==
    LET id == Len(b.entries) + 1
        heap == Append(b.entries, from_filename(path, size))
        parent_dir == dirname(path)
    IN  IF parent_dir = EmptyStr \/ parent_dir \notin DOMAIN b.fs_cache
        THEN Builder(heap,
                     Append(b.root_objects, id),
                     (path :> id) @@ b.fs_cache,
                     "")
        ELSE Builder(add_entry(heap, b.fs_cache[parent_dir], id),
                     b.root_objects, b.fs_cache, "")

\* process_lines, lines 82-83 and 91-96: the record is not a directory.
process_file_record(b, path, size) ==
    LET id == Len(b.entries) + 1
        heap == Append(b.entries, from_filename(path, size))
        parent_dir == dirname(path)
    IN  IF parent_dir = EmptyStr
        THEN Builder(heap,
                     Append(b.root_objects, id),
                     (path :> id) @@ b.fs_cache,
                     "")
        ELSE IF parent_dir \in DOMAIN b.fs_cache
        THEN Builder(add_entry(heap, b.fs_cache[parent_dir], id),
                     b.root_objects, b.fs_cache, "")
        ELSE [b EXCEPT !.raised = "KeyError"]

\* the loop body skipping a line json.loads rejects
process_line_skip_malformed(fp, b, line) ==
    IF ~line.valid
    THEN b
    ELSE IF line.path = Dot
    THEN b
    ELSE IF ~line.has_size
    THEN [b EXCEPT !.raised = "KeyError"]
    ELSE IF line.type = "d"
    THEN process_dir_record(fp, b, line.path, line.size)
    ELSE process_file_record(b, line.path, line.size)

\* the loop body reading record['size'] before it tests for "."
process_line_size_first(fp, b, line) ==
    IF ~line.valid
    THEN [b EXCEPT !.raised = "JSONDecodeError"]
    ELSE IF ~line.has_size
    THEN [b EXCEPT !.raised = "KeyError"]
    ELSE IF line.path = Dot
    THEN b
    ELSE IF line.type = "d"
    THEN process_dir_record(fp, b, line.path, line.size)
    ELSE process_file_record(b, line.path, line.size)

\* One iteration of the loop of process_lines, for the line `line`:
\* json.loads, the "." test, record['size'], then the branch on is_dir.
process_line(fp, b, line) ==
    IF ~line.valid
    THEN [b EXCEPT !.raised = "JSONDecodeError"]
    ELSE IF line.path = Dot
    THEN b
    ELSE IF ~line.has_size
    THEN [b EXCEPT !.raised = "KeyError"]
    ELSE IF line.type = "d"
    THEN process_dir_record(fp, b, line.path, line.size)
    ELSE process_file_record(b, line.path, line.size)

\* ------------------------------------------------------------ serializer
EmptyObject == [k \in {} |-> 0]
NoTree == <<>>

RECURSIVE entry_to_ncdu(_, _)

\* entry_to_ncdu taking an Entry with a nonzero size for a file
entry_to_ncdu_by_size(heap, e) ==
    IF Len(heap[e].sub) = 0 \/ heap[e].size # 0
    THEN [name |-> heap[e].name, dsize |-> heap[e].size]
    ELSE [array |-> <<[name |-> heap[e].name]>> \o
                    [k \in 1..Len(heap[e].sub) |-> entry_to_ncdu(heap, heap[e].sub[k])]]

entry_to_ncdu(heap, e) ==
    IF Len(heap[e].sub) = 0
    THEN [name |-> heap[e].name, dsize |-> heap[e].size]
    ELSE [array |-> <<[name |-> heap[e].name]>> \o
                    [k \in 1..Len(heap[e].sub) |-> entry_to_ncdu(heap, heap[e].sub[k])]]

generate_ncdu_tree(heap, roots) ==
    <<1, 1, EmptyObject,
      <<[name |-> "/"]>> \o [k \in 1..Len(roots) |-> entry_to_ncdu(heap, roots[k])]>>

\* ------------------------------------------------------------------- main
\* The state of main's archive branch (lines 139-152 and 177):
\*   pc           "start", "process_lines", "generate", "finally",
\*                "open_ncdu", "exited" ("idle": main is not running)
\*   proc         the borg process: "none", "running", "exited" (by itself,
\*                with returncode rc) or "terminated" (by SIGTERM)
\*   p            the variable p is not None
\*   pending      the exception on its way out of the try statement, "" if none
\*   sigterm      os.kill(p.pid, signal.SIGTERM) was called
\*   ncdu         open_ncdu_with_tree was called
\*   exit_status  the exit status of the program, once pc = "exited"
\*   interrupted  where the KeyboardInterrupt arrived, "" if it did not
MainState(pc, proc, rc, p, pending, sigterm, ncdu, exit_status, interrupted) ==
    [pc |-> pc, proc |-> proc, rc |-> rc, p |-> p, pending |-> pending,
     sigterm |-> sigterm, ncdu |-> ncdu, exit_status |-> exit_status,
     interrupted |-> interrupted]

NotInMain == MainState("idle", "none", 0, FALSE, "", FALSE, FALSE, 0, "")

\* The exit statuses the listing process can end with.
ExitCodes == {0, 1, 2}

\* the kill placed after the try statement instead of in its finally clause
finally_clause_after_try(m) ==
    LET killed == m.p /\ m.pending = ""
    IN  [m EXCEPT !.sigterm = @ \/ killed,
                  !.proc = IF killed /\ @ = "running" THEN "terminated" ELSE @,
                  !.pc = IF m.pending = "" THEN "open_ncdu" ELSE "exited",
                  !.exit_status = IF m.pending = "" THEN @ ELSE 1]

\* main, lines 150-152: the finally clause, then either the statement after
\* the try (no exception pending) or the exit of the program with status 1
\* (SystemExit(1) from exit(1), or an uncaught exception).
finally_clause(m) ==
    [m EXCEPT !.sigterm = @ \/ m.p,
              !.proc = IF m.p /\ @ = "running" THEN "terminated" ELSE @,
              !.pc = IF m.pending = "" THEN "open_ncdu" ELSE "exited",
              !.exit_status = IF m.pending = "" THEN @ ELSE 1]

\* ---------------------------------------------------------------- actions
\* BorgAnalyzer(full_path): empty root list, empty index.
Init ==
    /\ full_path \in BOOLEAN
    /\ entries = <<>>
    /\ root_objects = <<>>
    /\ fs_cache = <<>>
    /\ consumed = <<>>
    /\ status = "running"
    /\ tree = NoTree
    /\ main = NotInMain

\* process_lines takes the next line of its input and handles it.
ProcessLine ==
    /\ status = "running"
    /\ Len(consumed) < MaxLines
    /\ \E line \in Lines :
         LET b == process_line(full_path,
                               Builder(entries, root_objects, fs_cache, ""),
                               line)
         IN  /\ consumed' = Append(consumed, line)
             /\ entries' = b.entries
             /\ root_objects' = b.root_objects
             /\ fs_cache' = b.fs_cache
             /\ status' = IF b.raised = "" THEN "running" ELSE b.raised
    /\ UNCHANGED <<full_path, tree, main>>

\* The input is exhausted: analyze goes on to generate_ncdu_tree and returns.
GenerateTree ==
    /\ status = "running"
    /\ tree' = generate_ncdu_tree(entries, root_objects)
    /\ status' = "returned"
    /\ UNCHANGED <<full_path, entries, root_objects, fs_cache, consumed, main>>

Next == ProcessLine \/ GenerateTree

Spec == Init /\ [][Next]_vars

\* ----------------------------------------------------- actions of main
\* main called with an archive path ("::" in args.path), about to enter the try.
MainInit ==
    /\ full_path \in BOOLEAN
    /\ entries = <<>>
    /\ root_objects = <<>>
    /\ fs_cache = <<>>
    /\ consumed = <<>>
    /\ status = "running"
    /\ tree = NoTree
    /\ main = [NotInMain EXCEPT !.pc = "start"]

Builds == <<full_path, entries, root_objects, fs_cache, consumed, status, tree>>

\* line 143: the listing process is started and bound to p.
Popen ==
    /\ main.pc = "start"
    /\ main' = [main EXCEPT !.pc = "process_lines", !.proc = "running", !.p = TRUE]
    /\ UNCHANGED Builds

\* line 143, the interrupt arriving after the process was started and before
\* p is bound: except runs exit(1), finally finds p is None.
PopenInterrupted ==
    /\ main.pc = "start"
    /\ main' = [main EXCEPT !.pc = "finally", !.proc = "running",
                            !.pending = "SystemExit", !.interrupted = "start"]
    /\ UNCHANGED Builds

\* line 145: read_lines_from_process yields a line and process_lines handles
\* it; an exception it raises leaves the try statement.
ReadLine ==
    /\ main.pc = "process_lines"
    /\ main.proc = "running"
    /\ Len(consumed) < MaxProcLines
    /\ \E line \in Lines :
         LET b == process_line(full_path,
                               Builder(entries, root_objects, fs_cache, ""),
                               line)
         IN  /\ consumed' = Append(consumed, line)
             /\ entries' = b.entries
             /\ root_objects' = b.root_objects
             /\ fs_cache' = b.fs_cache
             /\ status' = IF b.raised = "" THEN "running" ELSE b.raised
             /\ main' = IF b.raised = "" THEN main
                        ELSE [main EXCEPT !.pc = "finally", !.pending = b.raised]
    /\ UNCHANGED <<full_path, tree>>

\* The listing process ends by itself, with any exit status, at any time.
ProcessExits ==
    /\ main.pc = "process_lines"
    /\ main.proc = "running"
    /\ \E rc \in ExitCodes : main' = [main EXCEPT !.proc = "exited", !.rc = rc]
    /\ UNCHANGED Builds

\* lines 32-34: readline returns nothing, the generator ends, process_lines
\* returns.  Nothing looks at the exit status of the process.
EndOfOutput ==
    /\ main.pc = "process_lines"
    /\ main.proc = "exited"
    /\ main' = [main EXCEPT !.pc = "generate"]
    /\ UNCHANGED Builds

\* lines 146-147
MainGenerateTree ==
    /\ main.pc = "generate"
    /\ tree' = generate_ncdu_tree(entries, root_objects)
    /\ status' = "returned"
    /\ main' = [main EXCEPT !.pc = "finally"]
    /\ UNCHANGED <<full_path, entries, root_objects, fs_cache, consumed>>

\* lines 148-149: the user interrupts while the try body runs with p bound;
\* except KeyboardInterrupt calls exit(1), which raises SystemExit.
KeyboardInterrupt ==
    /\ main.pc \in {"process_lines", "generate"}
    /\ main' = [main EXCEPT !.pc = "finally", !.pending = "SystemExit",
                            !.interrupted = main.pc]
    /\ UNCHANGED Builds

\* lines 150-152
Finally ==
    /\ main.pc = "finally"
    /\ main' = finally_clause(main)
    /\ UNCHANGED Builds

\* line 177
OpenNcdu ==
    /\ main.pc = "open_ncdu"
    /\ main' = [main EXCEPT !.pc = "exited", !.ncdu = TRUE]
    /\ UNCHANGED Builds

MainNext ==
    \/ Popen
    \/ PopenInterrupted
    \/ ReadLine
    \/ ProcessExits
    \/ EndOfOutput
    \/ MainGenerateTree
    \/ KeyboardInterrupt
    \/ Finally
    \/ OpenNcdu

MainSpec == MainInit /\ [][MainNext]_vars

\* ------------------------------------------------- vocabulary of the claims
Last(s) == s[Len(s)]

IsPrefix(s, t) == Len(s) <= Len(t) /\ SubSeq(t, 1, Len(s)) = s

Occurrences(s, e) == Cardinality({k \in 1..Len(s) : s[k] = e})

\* The FSEntry objects the builder holds.
Held == 1..Len(entries)

Children(e) == {entries[e].sub[k] : k \in 1..Len(entries[e].sub)}

\* The set S with everything at most n child-steps below it.
RECURSIVE DescWithin(_, _)
DescWithin(S, n) ==
    IF n = 0 THEN S
    ELSE DescWithin(S \cup UNION {Children(x) : x \in S}, n - 1)

NoError == status \in {"running", "returned"}

\* A line that is a well-formed record carrying path, type and size.
IsRecord(line) == line.valid /\ line.has_size

IsDirRecord(line) == IsRecord(line) /\ line.type = "d" /\ line.path # Dot

IsFileRecord(line) == IsRecord(line) /\ line.type # "d" /\ line.path # Dot

\* p is a proper ancestor directory of q.
AncestorOf(p, q) == Len(p) < Len(q) /\ SubSeq(q, 1, Len(p)) = p

\* The builder after the first k consumed lines.
RECURSIVE Replay(_)
Replay(k) ==
    IF k = 0
    THEN Builder(<<>>, <<>>, <<>>, "")
    ELSE process_line(full_path, Replay(k - 1), consumed[k])

\* The k-th consumed line is a directory record that went through ancestor
\* synthesis (its parent_dir was not indexed when it was processed).
Synthesizing(k) ==
    /\ IsDirRecord(consumed[k])
    /\ dirname(consumed[k].path) \notin DOMAIN Replay(k - 1).fs_cache

EntriesFor(p) == {e \in Held : entries[e].path = p}

\* The entries a step creates.
Created == (Len(entries) + 1)..Len(entries')

\* ------------------------------------------------------------------ claims

\* C1: in full-path mode no record of any input sequence fails with an
\* unresolved-parent lookup error (KeyError): whenever every line consumed so
\* far is a well-formed record with its size, the run has not raised KeyError.
C1_FullPathNoLookupFailure ==
    (full_path /\ \A k \in 1..Len(consumed) : IsRecord(consumed[k]))
        => status # "KeyError"

\* C2: in full-path mode, a directory path that is announced once by its own
\* directory record and also met as an ancestor during the synthesis of another
\* directory path has exactly one Entry, whichever of the two came first.
C2_OneEntryPerAnnouncedDir ==
    \A p \in Paths \ {Dot} :
        ( /\ full_path
          /\ NoError
          /\ \A k \in 1..Len(consumed) : IsDirRecord(consumed[k])
          /\ Cardinality({k \in 1..Len(consumed) : consumed[k].path = p}) = 1
          /\ \E j \in 1..Len(consumed) :
                AncestorOf(p, consumed[j].path) /\ Synthesizing(j) )
        => Cardinality(EntriesFor(p)) = 1

\* C3: once a path is a key of the Path Index, no later step binds the key to
\* another Entry or creates another Entry for that path.
C3_IndexedAtMostOnce ==
    [][\A p \in DOMAIN fs_cache :
          /\ p \in DOMAIN fs_cache'
          /\ fs_cache'[p] = fs_cache[p]
          /\ \A e \in Created : entries'[e].path # p]_vars

\* C4: as long as no error was raised, every Entry is exactly once in the Root
\* List or exactly once in the children of exactly one Entry, never both, and
\* no Entry is its own descendant.
C4_TreeProperty ==
    NoError =>
        /\ \A e \in Held :
              Occurrences(root_objects, e)
                + Cardinality({<<q, k>> \in Held \X (1..Len(entries)) :
                                  k <= Len(entries[q].sub) /\ entries[q].sub[k] = e})
                = 1
        /\ \A k \in 1..Len(root_objects) : root_objects[k] \in Held
        /\ \A e \in Held : Children(e) \subseteq Held
        /\ \A e \in Held : e \notin DescWithin(Children(e), Len(entries))

\* A tree with a root that has two children, one of which has a child.
C4_Witness ==
    /\ NoError
    /\ Len(root_objects) >= 1
    /\ \E e \in Held : \E c \in Children(e) :
          /\ Occurrences(root_objects, e) = 1
          /\ Cardinality(Children(e)) >= 2
          /\ Children(c) # {}

\* C5: every Entry a directory record creates has size 0, whatever size the
\* record declares.
C5_DirectoriesHaveSizeZero ==
    [][(consumed' # consumed /\ IsDirRecord(Last(consumed')))
          => \A e \in Created : entries'[e].size = 0]_vars

\* The list s holds strictly increasing identities (creation order).
Increasing(s) == \A i, j \in 1..Len(s) : i < j => s[i] < s[j]

\* t is s with elements of `created` appended.
AppendsOnlyCreated(s, t, created) ==
    /\ IsPrefix(s, t)
    /\ \A k \in (Len(s) + 1)..Len(t) : t[k] \in created

\* C6: the Root List and every children list change only by appending newly
\* created entries at the end, names and sizes never change, and every list is
\* in creation order.
C6_AppendOnly ==
    [][ /\ AppendsOnlyCreated(root_objects, root_objects', Created)
        /\ Len(entries) <= Len(entries')
        /\ \A e \in Held :
              /\ entries'[e].name = entries[e].name
              /\ entries'[e].size = entries[e].size
              /\ AppendsOnlyCreated(entries[e].sub, entries'[e].sub, Created)
        /\ Increasing(root_objects')
        /\ \A e \in 1..Len(entries') : Increasing(entries'[e].sub) ]_vars

\* Two root entries, and an Entry with two children.
C6_Witness ==
    /\ NoError
    /\ Len(root_objects) >= 2
    /\ \E e \in Held : Len(entries[e].sub) >= 2

\* C7: in per-dataset mode a directory record whose parent_dir is not indexed
\* creates exactly one Entry (for the full path, empty, size 0), indexes it
\* under the full path and appends it to the Root List, nothing else changes;
\* no step merges root entries or moves children; and every root entry is
\* serialized as its own root-level node, internal exactly when it has children.
C7_DatasetRoots ==
    [][ ~full_path =>
          /\ ( /\ consumed' # consumed
               /\ IsDirRecord(Last(consumed'))
               /\ dirname(Last(consumed').path) \notin DOMAIN fs_cache )
             => LET path == Last(consumed').path
                    id == Len(entries) + 1
                IN  /\ entries' = Append(entries,
                                         [path |-> path, name |-> path[Len(path)],
                                          size |-> 0, sub |-> <<>>])
                    /\ root_objects' = Append(root_objects, id)
                    /\ DOMAIN fs_cache' = DOMAIN fs_cache \cup {path}
                    /\ fs_cache'[path] = id
                    /\ \A p \in DOMAIN fs_cache \ {path} : fs_cache'[p] = fs_cache[p]
          /\ AppendsOnlyCreated(root_objects, root_objects', Created)
          /\ \A e \in Held :
                AppendsOnlyCreated(entries[e].sub, entries'[e].sub, Created)
          /\ status' = "returned" =>
                /\ Len(tree'[4]) = Len(root_objects') + 1
                /\ \A k \in 1..Len(root_objects') :
                      LET r == entries'[root_objects'[k]]
                          node == tree'[4][k + 1]
                      IN  IF Len(r.sub) = 0
                          THEN DOMAIN node = {"name", "dsize"} /\ node.name = r.name
                          ELSE /\ DOMAIN node = {"array"}
                               /\ node.array[1] = [name |-> r.name]
                               /\ Len(node.array) = Len(r.sub) + 1 ]_vars

\* Per-dataset mode, returned: two root entries, one of them a dataset whose
\* path has a prefix that was never indexed and which holds a child.
C7_Witness ==
    /\ ~full_path
    /\ status = "returned"
    /\ Len(root_objects) >= 2
    /\ \E k \in 1..Len(root_objects) :
          LET r == entries[root_objects[k]]
          IN  /\ Len(r.path) >= 2
              /\ dirname(r.path) \notin DOMAIN fs_cache
              /\ Len(r.sub) >= 1

\* node is the serialized form of Entry e: the leaf {name, dsize} when e has no
\* children, else the array [{name}, child, child, ...] in insertion order.
RECURSIVE Describes(_, _)
Describes(node, e) ==
    IF entries[e].sub = <<>>
    THEN node = [name |-> entries[e].name, dsize |-> entries[e].size]
    ELSE /\ DOMAIN node = {"array"}
         /\ Len(node.array) = Len(entries[e].sub) + 1
         /\ node.array[1] = [name |-> entries[e].name]
         /\ \A k \in 1..Len(entries[e].sub) :
               Describes(node.array[k + 1], entries[e].sub[k])

FileLine(path, size) ==
    [valid |-> TRUE, path |-> path, type |-> "f", has_size |-> TRUE, size |-> size]

\* C8: the returned document is [1, 1, {}, [{name: "/"}, ser(r1), ..., ser(rn)]]
\* with the roots in Root List order; a single root file "x" of size 42 yields
\* [1, 1, {}, [{name: "/"}, {name: "x", dsize: 42}]].
C8_SerializationShape ==
    status = "returned" =>
        /\ Len(tree) = 4
        /\ tree[1] = 1
        /\ tree[2] = 1
        /\ tree[3] = EmptyObject
        /\ Len(tree[4]) = Len(root_objects) + 1
        /\ tree[4][1] = [name |-> "/"]
        /\ \A k \in 1..Len(root_objects) : Describes(tree[4][k + 1], root_objects[k])
        /\ consumed = <<FileLine(<<"x">>, 42)>> =>
              tree = <<1, 1, EmptyObject,
                       <<[name |-> "/"], [name |-> "x", dsize |-> 42]>>>>

\* A returned document with two roots, one of them an internal node whose own
\* size is not 0 and which holds a leaf.
C8_Witness ==
    /\ status = "returned"
    /\ Len(root_objects) >= 2
    /\ \E e \in Held : entries[e].size # 0 /\ entries[e].sub # <<>>

\* The single-file example of C8.
C8_WitnessSingleFile ==
    /\ status = "returned"
    /\ consumed = <<FileLine(<<"x">>, 42)>>

\* C9: in per-dataset mode a file record with a non-empty parent_dir that is
\* not indexed raises KeyError and leaves the Root List, the index and every
\* Entry as they were; no step follows an error and no document is produced.
C9_DatasetUnresolvedParent ==
    [][ /\ status = "running"
        /\ ( /\ ~full_path
             /\ consumed' # consumed
             /\ IsFileRecord(Last(consumed'))
             /\ dirname(Last(consumed').path) # EmptyStr
             /\ dirname(Last(consumed').path) \notin DOMAIN fs_cache )
           => /\ status' = "KeyError"
              /\ entries' = entries
              /\ root_objects' = root_objects
              /\ fs_cache' = fs_cache
              /\ tree' = NoTree ]_vars

\* The run ended with KeyError on such a file record, after a directory had
\* been attached.
C9_Witness ==
    /\ ~full_path
    /\ status = "KeyError"
    /\ tree = NoTree
    /\ entries # <<>>
    /\ IsFileRecord(Last(consumed))
    /\ dirname(Last(consumed).path) # EmptyStr
    /\ dirname(Last(consumed).path) \notin DOMAIN fs_cache

\* C10: a record whose path is "." changes neither the Root List, nor the
\* index, nor any Entry, whatever its type and whether or not it carries a
\* size, and the run goes on.
C10_DotRecordSkipped ==
    [][ ( /\ consumed' # consumed
          /\ Last(consumed').valid
          /\ Last(consumed').path = Dot )
        => /\ entries' = entries
           /\ root_objects' = root_objects
           /\ fs_cache' = fs_cache
           /\ tree' = tree
           /\ status' = "running" ]_vars

\* A "." directory record without a size was consumed between two records that
\* each created an Entry.
C10_Witness ==
    /\ status = "running"
    /\ Len(consumed) = 3
    /\ consumed[2].valid
    /\ consumed[2].path = Dot
    /\ consumed[2].type = "d"
    /\ ~consumed[2].has_size
    /\ Len(entries) >= 2
    /\ Replay(1).entries # <<>>
    /\ Len(Replay(3).entries) > Len(Replay(2).entries)

\* C11: a line that is not valid JSON raises JSONDecodeError at that line,
\* wherever it occurs and in both modes: the builder is left as it was, no step
\* follows (no later line is processed) and no document is returned.
C11_MalformedLineHalts ==
    [][ /\ status # "JSONDecodeError"
        /\ (consumed' # consumed /\ ~Last(consumed').valid)
           => /\ status' = "JSONDecodeError"
              /\ entries' = entries
              /\ root_objects' = root_objects
              /\ fs_cache' = fs_cache
              /\ tree' = NoTree ]_vars

\* The run ended on a malformed line that came after lines which built entries.
C11_Witness ==
    /\ status = "JSONDecodeError"
    /\ tree = NoTree
    /\ Len(consumed) >= 2
    /\ ~Last(consumed).valid
    /\ entries # <<>>

\* The first i segments of path p.
Prefix(p, i) == SubSeq(p, 1, i)

\* C14: in full-path mode a directory record for p whose parent_dir is not
\* indexed creates one size-0 Entry for exactly each prefix of p that is not
\* indexed, indexes it, and attaches it to the Root List (first segment) or to
\* the Entry indexed under its parent prefix; indexed prefixes keep their
\* Entries; the step raises nothing and afterwards every prefix is indexed.
C14_FullPathSynthesis ==
    [][ ( /\ full_path
          /\ consumed' # consumed
          /\ IsDirRecord(Last(consumed'))
          /\ dirname(Last(consumed').path) \notin DOMAIN fs_cache )
        => LET p == Last(consumed').path
               missing == {i \in 1..Len(p) : Prefix(p, i) \notin DOMAIN fs_cache}
           IN  /\ status' = "running"
               /\ Len(entries') = Len(entries) + Cardinality(missing)
               /\ DOMAIN fs_cache' =
                     DOMAIN fs_cache \cup {Prefix(p, i) : i \in 1..Len(p)}
               /\ \A q \in DOMAIN fs_cache : fs_cache'[q] = fs_cache[q]
               /\ \A e \in Held :
                     /\ entries'[e].path = entries[e].path
                     /\ entries'[e].name = entries[e].name
                     /\ entries'[e].size = entries[e].size
                     /\ AppendsOnlyCreated(entries[e].sub, entries'[e].sub, Created)
               /\ AppendsOnlyCreated(root_objects, root_objects', Created)
               /\ 1 \notin missing => root_objects' = root_objects
               /\ \A i \in missing :
                     LET e == fs_cache'[Prefix(p, i)]
                     IN  /\ e \in Created
                         /\ \A j \in missing \ {i} : fs_cache'[Prefix(p, j)] # e
                         /\ entries'[e].path = Prefix(p, i)
                         /\ entries'[e].name = p[i]
                         /\ entries'[e].size = 0
                         /\ \A k \in 1..Len(entries'[e].sub) :
                               entries'[e].sub[k] \in Created
                         /\ IF i = 1
                            THEN /\ root_objects' = Append(root_objects, e)
                                 /\ \A q \in 1..Len(entries') :
                                       Occurrences(entries'[q].sub, e) = 0
                            ELSE /\ Occurrences(root_objects', e) = 0
                                 /\ \A q \in 1..Len(entries') :
                                       Occurrences(entries'[q].sub, e) =
                                          IF q = fs_cache'[Prefix(p, i - 1)]
                                          THEN 1 ELSE 0
                                 /\ Last(entries'[fs_cache'[Prefix(p, i - 1)]].sub) = e
      ]_vars

\* Full-path mode: the last line went through synthesis, found its first
\* segment indexed and created the two deeper prefixes.
C14_Witness ==
    /\ full_path
    /\ status = "running"
    /\ Len(consumed) >= 2
    /\ Synthesizing(Len(consumed))
    /\ Len(Last(consumed).path) >= 3
    /\ Prefix(Last(consumed).path, 1) \in DOMAIN Replay(Len(consumed) - 1).fs_cache
    /\ Len(entries) = Len(Replay(Len(consumed) - 1).entries) + 2

\* C15: a directory record that carries no size field is processed normally
\* and does not abort the run.
C15_DirWithoutSizeAccepted ==
    ( /\ consumed # <<>>
      /\ Last(consumed).valid
      /\ Last(consumed).type = "d"
      /\ ~Last(consumed).has_size
      /\ Last(consumed).path # Dot )
    => status # "KeyError"

\* The entries the k-th consumed line created.
CreatedBy(k) == (Len(Replay(k - 1).entries) + 1)..Len(Replay(k).entries)

\* C16: an Entry created from a file record never acquires children.
C16_FilesStayLeaves ==
    NoError =>
        \A k \in 1..Len(consumed) :
            IsFileRecord(consumed[k]) =>
                \A e \in CreatedBy(k) : entries[e].sub = <<>>

\* The builder after the first k consumed lines, had it been built in mode fp.
RECURSIVE ReplayIn(_, _)
ReplayIn(fp, k) ==
    IF k = 0
    THEN Builder(<<>>, <<>>, <<>>, "")
    ELSE LET before == ReplayIn(fp, k - 1)
         IN  IF before.raised # ""
             THEN before
             ELSE process_line(fp, before, consumed[k])

\* No path occurs twice, and every record with a non-empty parent_dir comes
\* after a directory record for exactly that parent_dir.
WellOrdered ==
    /\ \A i, j \in 1..Len(consumed) :
          (i # j /\ consumed[i].valid /\ consumed[j].valid)
             => consumed[i].path # consumed[j].path
    /\ \A k \in 1..Len(consumed) :
          (consumed[k].valid /\ dirname(consumed[k].path) # EmptyStr)
             => \E j \in 1..(k - 1) :
                   /\ consumed[j].valid
                   /\ consumed[j].type = "d"
                   /\ consumed[j].path = dirname(consumed[k].path)

\* C17: on well-ordered input the two modes agree: the builder reached in this
\* mode has the Root List, the Path Index and the entries the other mode builds
\* from the same lines, ends the same way, and returns the same document.
C17_ModesAgreeOnWellOrdered ==
    WellOrdered =>
        LET other == ReplayIn(~full_path, Len(consumed))
        IN  /\ entries = other.entries
            /\ root_objects = other.root_objects
            /\ fs_cache = other.fs_cache
            /\ NoError <=> other.raised = ""
            /\ ~NoError => status = other.raised
            /\ status = "returned" =>
                  tree = generate_ncdu_tree(other.entries, other.root_objects)

\* A returned run over three well-ordered lines that built a three-level tree.
C17_Witness ==
    /\ WellOrdered
    /\ status = "returned"
    /\ Len(consumed) = 3
    /\ Len(entries) = 3
    /\ \E e \in Held : Len(entries[e].path) = 3 /\ entries[e].size # 0

\* C18: in full-path mode, as long as no error was raised, the Entry indexed
\* under p is in the Root List when p has no parent directory, and otherwise
\* parent_dir(p) is indexed and the Entry is a child of the Entry indexed there.
C18_IndexAgreesWithTree ==
    (full_path /\ NoError) =>
        \A p \in DOMAIN fs_cache :
            IF dirname(p) = EmptyStr
            THEN Occurrences(root_objects, fs_cache[p]) >= 1
            ELSE /\ dirname(p) \in DOMAIN fs_cache
                 /\ fs_cache[p] \in Children(fs_cache[dirname(p)])

\* C12 (MainSpec): when the listing process ended by itself with a nonzero
\* exit status, the program does not open the visualizer and ends with a
\* non-zero status.
C12_ProcessFailureIsFatal ==
    (main.pc = "exited" /\ main.proc = "exited" /\ main.rc # 0)
        => (~main.ncdu /\ main.exit_status # 0)

\* C13 (MainSpec): after an interrupt that arrived while lines were being read
\* or processed, the visualizer is never opened and no tree is kept, and when
\* the program has exited SIGTERM was sent to the listing process and the exit
\* status is 1.
C13_InterruptTerminatesProcess ==
    main.interrupted = "process_lines" =>
        /\ main.pc \in {"finally", "exited"}
        /\ ~main.ncdu
        /\ tree = NoTree
        /\ main.pc = "exited" =>
              /\ main.sigterm
              /\ main.proc # "running"
              /\ main.exit_status = 1

\* The program has exited after an interrupt that found the process running
\* and a partly built tree.
C13_Witness ==
    /\ main.pc = "exited"
    /\ main.interrupted = "process_lines"
    /\ main.proc = "terminated"
    /\ entries # <<>>

====
